---- MODULE Spec2Model ----
(***************************************************************************)
(* Kubernetes-Query-System: the resource query dispatcher                  *)
(* (tools/kubconnect.py), the two agent loops (llm_agent.py and            *)
(* llm_agent_langchain.py) and the HTTP endpoints (main.py).               *)
(*                                                                         *)
(* Text whose characters matter (resource types, method names) is a        *)
(* sequence of one-character strings; other text is a TLA+ string.         *)
(***************************************************************************)
EXTENDS Integers, Sequences, FiniteSets, Bags, TLC

VARIABLES
    files,          \* the file system: path -> content, for the paths that exist
    csv,            \* tools/resources.csv: whether it can be read, and its rows
    k8s,            \* the last execute_k8s_query call: inputs, outcome, remote calls
    chat_history,   \* sre_agent.chat_history (one list for the one global agent)
    session_data,   \* main.session_data: session id -> uploaded file info
    http,           \* the last HTTP request a handler ran for, and its response
    pending,        \* the bag of /upload requests between opening the file and copying
    turn,           \* the last agent turn (chat or run_agent_query): what it did
    hist            \* history variable: what each session has requested so far

vars == <<files, csv, k8s, chat_history, session_data, http, pending, turn, hist>>

----------------------------------------------------------------------------
(* Bounds of the model *)

MaxRows == 2        \* rows in a resources.csv table
MaxTurns == 2       \* chat turns kept in one history before a reset is needed
MaxPending == 2     \* /upload requests suspended at one time

----------------------------------------------------------------------------
(* Python values *)

None == [t |-> "None"]
Str(s) == [t |-> "str", v |-> s]

\* Python truthiness of an Optional[str]: None and "" are false.
truthy(x) == x.t = "str" /\ x.v # ""

UPPER == <<"A","B","C","D","E","F","G","H","I","J","K","L","M",
           "N","O","P","Q","R","S","T","U","V","W","X","Y","Z">>
LOWER == <<"a","b","c","d","e","f","g","h","i","j","k","l","m",
           "n","o","p","q","r","s","t","u","v","w","x","y","z">>

lower_char(c) ==
    IF \E i \in 1..26 : UPPER[i] = c
    THEN LOWER[CHOOSE i \in 1..26 : UPPER[i] = c]
    ELSE c

\* str.lower()
lower(s) == [i \in 1..Len(s) |-> lower_char(s[i])]

\* str.startswith
startswith(s, p) == Len(s) >= Len(p) /\ SubSeq(s, 1, Len(p)) = p

\* os.path.join of two relative components
path_join(a, b) == a \o "/" \o b

----------------------------------------------------------------------------
(* Text constants, character by character *)

s_pod == <<"p","o","d">>
s_Pod == <<"P","o","d">>
s_POD == <<"P","O","D">>
s_node == <<"n","o","d","e">>
s_job == <<"j","o","b">>
s_widget == <<"w","i","d","g","e","t">>
s_Widget == <<"W","i","d","g","e","t">>
s_deployment == <<"d","e","p","l","o","y","m","e","n","t">>
s_Deployment == <<"D","e","p","l","o","y","m","e","n","t">>
s_read == <<"r","e","a","d">>
s_list == <<"l","i","s","t">>
s_delete == <<"d","e","l","e","t","e">>
s_create == <<"c","r","e","a","t","e">>
s_namespaced == <<"_","n","a","m","e","s","p","a","c","e","d","_">>

----------------------------------------------------------------------------
(* tools/kubconnect.py: the resource query dispatcher *)

\* The path execute_k8s_query hands to config.load_kube_config.
KUBE_CONFIG_FILE == "tmp/uploads/config"

\* The attributes the two kubernetes client classes offer (a part of them,
\* mutating operations included: the clients are not read-only by themselves).
api_methods(api_client) ==
    IF api_client = "CoreV1Api"
    THEN { verb \o s_namespaced \o kind :
             verb \in {s_read, s_list, s_delete, s_create}, kind \in {s_pod} }
    ELSE { verb \o s_namespaced \o kind :
             verb \in {s_read, s_list, s_delete, s_create}, kind \in {s_deployment} }

\* api_map after the first n rows of the table: rows of another api_version are
\* skipped, a later row overwrites an earlier one with the same resource.
RECURSIVE api_map_rows(_, _)
api_map_rows(rows, n) ==
    IF n = 0 THEN [k \in {} |-> <<>>]
    ELSE LET m == api_map_rows(rows, n - 1)
             row == rows[n]
             api_client == IF row.api_version = "v1" THEN "CoreV1Api" ELSE "AppsV1Api"
         IN  IF row.api_version \notin {"v1", "apps_v1"} THEN m
             ELSE [k \in DOMAIN m \cup {row.resource} |->
                     IF k = row.resource THEN <<api_client, row.method_suffix>> ELSE m[k]]

\* get_api_map_from_csv on a readable table.
get_api_map_from_csv(rows) == api_map_rows(rows, Len(rows))

\* json.loads on the bodies an ApiException carries here: the parsed value, or
\* the exception json.loads raises.
json_loads(body) ==
    IF body.t = "None" THEN [raised |-> "TypeError"]
    ELSE CASE body.v = "{\"message\":\"pods not found\"}" ->
                 [raised |-> "none", type |-> "dict", message |-> Str("pods not found")]
           [] body.v = "{}" ->
                 [raised |-> "none", type |-> "dict", message |-> None]
           [] body.v = "[]" ->
                 [raised |-> "none", type |-> "list", message |-> None]
           [] OTHER -> [raised |-> "JSONDecodeError"]

\* The envelope execute_k8s_query returns, with what the call did on the way.
Returned(status, data, method_name, calls) ==
    [raised |-> "none", status |-> status, data |-> data,
     method_name |-> method_name, calls |-> calls, config_file |-> KUBE_CONFIG_FILE]

\* An exception leaving execute_k8s_query.
Raised(exc, method_name, calls) ==
    [raised |-> exc, status |-> "none", data |-> [kind |-> "none", arg |-> None],
     method_name |-> method_name, calls |-> calls, config_file |-> KUBE_CONFIG_FILE]

\* A dispatcher that reads whenever a name is given, the empty name included.
action_of_is_not_None(name) == IF name.t = "str" THEN s_read ELSE s_list

\* A dispatcher whose operation on a named resource is a mutating one.
action_of_delete(name) == IF truthy(name) THEN s_delete ELSE s_list

\* action = "read" if name else "list"
action_of(name) == IF truthy(name) THEN s_read ELSE s_list

\* kwargs = {'namespace': namespace}; if name: kwargs['name'] = name
kwargs_of(namespace, name) ==
    IF truthy(name) THEN [namespace |-> namespace, name |-> name.v]
    ELSE [namespace |-> namespace]

\* except ApiException as e: json.loads(e.body), then error_body.get('message').
\* An exception raised inside the handler is not caught by the handlers beside it.
except_ApiException(body, method_name, calls) ==
    LET error_body == json_loads(body)
    IN  IF error_body.raised # "none" THEN Raised(error_body.raised, method_name, calls)
        ELSE IF error_body.type # "dict" THEN Raised("AttributeError", method_name, calls)
        ELSE Returned("error",
                      [kind |-> "Kubernetes API Error: ", arg |-> error_body.message],
                      method_name, calls)

\* except AttributeError
except_AttributeError(method_name, calls) ==
    Returned("error",
             [kind |-> "Internal Tool Error: Could not find method '", arg |-> method_name],
             method_name, calls)

\* except Exception as e
except_Exception(e, method_name, calls) ==
    Returned("error", [kind |-> "An unexpected error occurred: ", arg |-> Str(e)],
             method_name, calls)

\* An envelope that names the normalized resource type instead of the given one.
unsupported_lowered(resource_type) ==
    Returned("error",
             [kind |-> "Unsupported resource type: '", arg |-> lower(resource_type)],
             <<>>, <<>>)

\* return {'status': 'error', 'data': f"Unsupported resource type: '{resource_type}'."}
unsupported(resource_type) ==
    Returned("error",
             [kind |-> "Unsupported resource type: '", arg |-> resource_type],
             <<>>, <<>>)

\* The kubeconfig that config.load_kube_config accepts, and a file that it
\* does not accept, as the blocks of bytes they are made of.
Kubeconfig == << "apiVersion", "clusters", "contexts" >>
Garbage == << "garbage" >>

\* execute_k8s_query(resource_type, namespace, name) on file system fs and mapping
\* table table, the remote API answering the one call it may get with `remote`.
execute_k8s_query(resource_type, namespace, name, fs, table, remote) ==
    IF ~(KUBE_CONFIG_FILE \in DOMAIN fs /\ fs[KUBE_CONFIG_FILE] = Kubeconfig)
    THEN except_Exception("ConfigException", <<>>, <<>>)
    ELSE IF ~table.readable
    THEN except_Exception("FileNotFoundError", <<>>, <<>>)
    ELSE
    LET resource_map == get_api_map_from_csv(table.rows)
        resource_type_lower == lower(resource_type)
    IN  IF resource_type_lower \notin DOMAIN resource_map
        THEN unsupported(resource_type)
        ELSE
        LET api_client == resource_map[resource_type_lower][1]
            method_suffix == resource_map[resource_type_lower][2]
            method_name == action_of(name) \o s_namespaced \o method_suffix
            kwargs == kwargs_of(namespace, name)
            calls == << [api_client |-> api_client, method |-> method_name,
                         kwargs |-> kwargs] >>
        IN  IF method_name \notin api_methods(api_client)
            THEN except_AttributeError(method_name, <<>>)
            ELSE CASE remote.kind = "ok" ->
                        Returned("success", [kind |-> "to_dict", arg |-> Str(remote.obj)],
                                 method_name, calls)
                   [] remote.kind = "ApiException" ->
                        except_ApiException(remote.body, method_name, calls)
                   [] remote.kind = "AttributeError" ->
                        except_AttributeError(method_name, calls)
                   [] OTHER ->
                        except_Exception(remote.kind, method_name, calls)

----------------------------------------------------------------------------
(* The dispatcher called on its own: the inputs are drawn at the start and   *)
(* the one action applies execute_k8s_query to them.                         *)

Row(resource, api_version, method_suffix) ==
    [resource |-> resource, api_version |-> api_version, method_suffix |-> method_suffix]

\* Rows a resources.csv may hold: the two surfaces, a row of another api_version,
\* a resource whose key is not lower-case, a suffix no client method is named by.
RowPool ==
    { Row(s_pod, "v1", s_pod), Row(s_Pod, "v1", s_pod),
      Row(s_deployment, "apps_v1", s_deployment),
      Row(s_job, "batch_v1", s_job), Row(s_node, "v1", s_node) }

RECURSIVE SeqsUpTo(_, _)
SeqsUpTo(S, n) ==
    IF n = 0 THEN { <<>> }
    ELSE LET shorter == SeqsUpTo(S, n - 1)
         IN  shorter \cup { Append(q, x) : q \in shorter, x \in S }

Tables ==
    { [readable |-> FALSE, rows |-> <<>>] }
    \cup { [readable |-> TRUE, rows |-> r] : r \in SeqsUpTo(RowPool, MaxRows) }

ResourceTypes == { s_pod, s_Pod, s_POD, s_deployment, s_Deployment, s_node, s_widget, s_Widget }
Namespaces == { "default", "kube-system" }
Names == { None, Str(""), Str("web") }

NoBody == [kind |-> "ok", obj |-> "V1PodList", body |-> None]
Remotes ==
    { NoBody,
      [kind |-> "ApiException", obj |-> "", body |-> Str("{\"message\":\"pods not found\"}")],
      [kind |-> "ApiException", obj |-> "", body |-> Str("{}")],
      [kind |-> "ApiException", obj |-> "", body |-> Str("[]")],
      [kind |-> "ApiException", obj |-> "", body |-> Str("Unauthorized")],
      [kind |-> "ApiException", obj |-> "", body |-> None],
      [kind |-> "AttributeError", obj |-> "", body |-> None],
      [kind |-> "MaxRetryError", obj |-> "", body |-> None] }

UPLOAD_DIR == "uploads"
CONFIG_FILENAME == "config"
CONFIG_FILE_PATH == path_join(UPLOAD_DIR, CONFIG_FILENAME)

EmptyFs == [p \in {} |-> <<>>]
\* What a file holds is a sequence of blocks of bytes: a kubeconfig that
\* load_kube_config accepts, of three blocks, and a file of one block that it
\* does not accept.
Contents == { Kubeconfig, Garbage }
\* The file systems the dispatcher may run on.
FileSystems ==
    { EmptyFs }
    \cup { [p \in {KUBE_CONFIG_FILE} |-> c] : c \in Contents }
    \cup { [p \in {CONFIG_FILE_PATH} |-> c] : c \in Contents }

\* The file systems the server may start on: nothing uploaded, or a file left
\* at uploads/config by an earlier run.
WebFileSystems == { EmptyFs, [p \in {CONFIG_FILE_PATH} |-> Kubeconfig] }

IdleTurn == [kind |-> "none"]
IdleHttp == [req |-> "none", session_id |-> "", status |-> 0, path |-> ""]
\* No /upload is between its two steps.
NoPending == EmptyBag

InitDispatch ==
    /\ files \in FileSystems
    /\ csv \in Tables
    /\ k8s \in { [pc |-> "call", resource_type |-> rt, namespace |-> ns, name |-> n,
                  remote |-> r] :
                 rt \in ResourceTypes, ns \in Namespaces, n \in Names, r \in Remotes }
    /\ chat_history = <<>>
    /\ session_data = [s \in {} |-> 0]
    /\ http = IdleHttp
    /\ pending = NoPending
    /\ turn = IdleTurn
    /\ hist = <<>>

Execute ==
    /\ k8s.pc = "call"
    /\ k8s' = [pc |-> "returned", resource_type |-> k8s.resource_type,
               namespace |-> k8s.namespace, name |-> k8s.name, remote |-> k8s.remote,
               result |-> execute_k8s_query(k8s.resource_type, k8s.namespace, k8s.name,
                                            files, csv, k8s.remote)]
    /\ UNCHANGED <<files, csv, chat_history, session_data, http, pending, turn, hist>>

NextDispatch == Execute

SpecDispatch == InitDispatch /\ [][NextDispatch]_vars

----------------------------------------------------------------------------
(* Messages and the scripted model *)

Msg(role, content, tool_calls, tool_call_id) ==
    [role |-> role, content |-> content, tool_calls |-> tool_calls,
     tool_call_id |-> tool_call_id]

SystemMessage == Msg("system", Str("sys_prompt"), <<>>, "")
HumanMessage(content) == Msg("user", Str(content), <<>>, "")
AIMessage(content) == Msg("assistant", Str(content), <<>>, "")
\* The assistant message that carries the model's tool-call requests.
AIToolCalls(response) == Msg("assistant", Str(response.content), response.tool_calls, "")
ToolMessage(content, tool_call_id) == Msg("tool", content, <<>>, tool_call_id)

\* A response of the model: plain text, tool-call requests, or a failed call.
Text(content) == [kind |-> "text", content |-> content, tool_calls |-> <<>>]
Calls(tool_calls) == [kind |-> "tool_calls", content |-> "", tool_calls |-> tool_calls]
Fails == [kind |-> "raise", content |-> "", tool_calls |-> <<>>]
\* A failed call whose exception is a requests.exceptions.RequestException.
FailsRequest == [kind |-> "raise_request", content |-> "", tool_calls |-> <<>>]

\* A tool-call request, with the answer the remote API will give to it. Its
\* argument payload is valid: JSON that fits the tool's schema.
ToolCall(id, tool, resource_type, namespace, name, remote) ==
    [id |-> id, name |-> tool, payload |-> "valid",
     args |-> [resource_type |-> resource_type, namespace |-> namespace, name |-> name],
     remote |-> remote]

\* A tool-call request whose argument payload is malformed: "unparseable" is
\* text that is not JSON, "invalid" is JSON without the required resource_type.
MalformedToolCall(id, tool, payload) ==
    [id |-> id, name |-> tool, payload |-> payload,
     args |-> IF payload = "unparseable" THEN Str("{\"resource_type\": ")
              ELSE [namespace |-> "default"],
     remote |-> NoBody]

\* A scripted model answers its n-th call with the n-th response of its script,
\* and with the last one from then on.
response_at(script, n) == script[IF n <= Len(script) THEN n ELSE Len(script)]

----------------------------------------------------------------------------
(* llm_agent_langchain.py: the tool and the stateful agent *)

max_iterations == 15
\* The output the executor gives when it stops on its budget.
STOPPED == "Agent stopped due to max iterations."

\* get_kubernetes_resource: the tool, a direct call of the dispatcher.
get_kubernetes_resource(resource_type, namespace, name, fs, table, remote) ==
    execute_k8s_query(resource_type, namespace, name, fs, table, remote)

\* The tool calls of one response, from the i-th on, run in order: the results
\* and the tool messages, up to the first call that raises. Arguments that do
\* not fit args_schema=KubernetesResourceInput raise the schema's
\* ValidationError out of the tool, which is not set to handle it.
RECURSIVE run_tools(_, _, _, _)
run_tools(tool_calls, i, fs, table) ==
    IF i > Len(tool_calls)
    THEN [raised |-> "none", results |-> <<>>, messages |-> <<>>]
    ELSE IF tool_calls[i].payload = "invalid"
    THEN [raised |-> "ValidationError", results |-> <<>>, messages |-> <<>>]
    ELSE LET c == tool_calls[i]
             r == get_kubernetes_resource(c.args.resource_type, c.args.namespace,
                                          c.args.name, fs, table, c.remote)
             rest == run_tools(tool_calls, i + 1, fs, table)
             observation == [t |-> "QueryResult", status |-> r.status, data |-> r.data]
         IN  IF r.raised # "none"
             THEN [raised |-> r.raised, results |-> <<r>>, messages |-> <<>>]
             ELSE [raised |-> rest.raised, results |-> <<r>> \o rest.results,
                   messages |-> <<ToolMessage(observation, c.id)>> \o rest.messages]

\* What the scratchpad shows of a response whose tool-call arguments are not
\* JSON: with handle_parsing_errors=True the parse error is kept as a step.
PARSE_ERROR == "Could not parse tool input"

\* The executor's loop: a model call per iteration on the messages so far; text
\* ends the loop, tool calls are run and their messages added to the scratchpad;
\* a response whose tool-call arguments cannot be parsed runs no tool and costs
\* an iteration; when the budget is spent the loop ends without a further model
\* call.
RECURSIVE agent_loop(_, _, _, _, _, _, _)
agent_loop(script, messages, iterations, results, fs, table, budget) ==
    IF iterations >= budget
    THEN [raised |-> "none", output |-> STOPPED, model_calls |-> iterations,
          results |-> results, messages |-> messages]
    ELSE LET response == response_at(script, iterations + 1)
         IN  CASE response.kind \in {"raise", "raise_request"} ->
                    [raised |-> IF response.kind = "raise" THEN "APIConnectionError"
                                ELSE "RequestException",
                     output |-> "",
                     model_calls |-> iterations + 1, results |-> results,
                     messages |-> messages]
               [] response.kind = "text" ->
                    [raised |-> "none", output |-> response.content,
                     model_calls |-> iterations + 1, results |-> results,
                     messages |-> messages]
               [] \E n \in 1..Len(response.tool_calls) :
                      response.tool_calls[n].payload = "unparseable" ->
                    agent_loop(script, Append(messages, AIMessage(PARSE_ERROR)),
                               iterations + 1, results, fs, table, budget)
               [] OTHER ->
                    LET ran == run_tools(response.tool_calls, 1, fs, table)
                    IN  IF ran.raised # "none"
                        THEN [raised |-> ran.raised, output |-> "",
                              model_calls |-> iterations + 1,
                              results |-> results \o ran.results,
                              messages |-> Append(messages, AIToolCalls(response))]
                        ELSE agent_loop(script,
                                        Append(messages, AIToolCalls(response))
                                            \o ran.messages,
                                        iterations + 1, results \o ran.results,
                                        fs, table, budget)

\* An executor that allows one iteration more than configured.
agent_executor_invoke_off_by_one(input, history, script, fs, table) ==
    agent_loop(script, <<SystemMessage>> \o history \o <<HumanMessage(input)>>,
               0, <<>>, fs, table, max_iterations + 1)

\* self.agent_executor.invoke({"input": ..., "chat_history": ...}): the prompt is
\* the system message, the chat history, the question and the scratchpad.
agent_executor_invoke(input, history, script, fs, table) ==
    agent_loop(script, <<SystemMessage>> \o history \o <<HumanMessage(input)>>,
               0, <<>>, fs, table, max_iterations)

\* A chat that keeps only the latest turn in the history.
chat_history_after_latest_only(history, user_question, output) ==
    << HumanMessage(user_question), AIMessage(output) >>

\* self.chat_history.append(HumanMessage(...)); self.chat_history.append(AIMessage(...))
chat_history_after(history, user_question, output) ==
    Append(Append(history, HumanMessage(user_question)), AIMessage(output))

\* A chat that records the question before it runs the executor, so that a
\* failed turn leaves the question in the history.
chat_records_question_first(history, user_question, script, fs, table) ==
    LET response == agent_executor_invoke(user_question, history, script, fs, table)
    IN  [kind |-> "chat", input |-> user_question, script |-> script,
         before |-> history,
         raised |-> response.raised, returned |-> Str(response.output),
         model_calls |-> response.model_calls, results |-> response.results,
         messages |-> response.messages,
         history |-> IF response.raised = "none"
                     THEN chat_history_after(history, user_question, response.output)
                     ELSE Append(history, HumanMessage(user_question))]

\* KubernetesSREAgent.chat: the turn it runs and the history it leaves. When the
\* executor raises, the history is not touched and the exception leaves chat.
chat(history, user_question, script, fs, table) ==
    LET response == agent_executor_invoke(user_question, history, script, fs, table)
    IN  [kind |-> "chat", input |-> user_question, script |-> script,
         before |-> history,
         raised |-> response.raised, returned |-> Str(response.output),
         model_calls |-> response.model_calls, results |-> response.results,
         messages |-> response.messages,
         history |-> IF response.raised = "none"
                     THEN chat_history_after(history, user_question, response.output)
                     ELSE history]

\* A reset that drops only the last turn.
start_new_session_last_turn(history) ==
    IF Len(history) >= 2 THEN SubSeq(history, 1, Len(history) - 2) ELSE history

\* KubernetesSREAgent.start_new_session: self.chat_history = []
start_new_session(history) == <<>>

----------------------------------------------------------------------------
(* llm_agent.py: the one-shot agent *)

TOOL_NAME == "execute_kubernetes_query"

\* The outcome of run_agent_query: it returns None on every path that returns.
\* The model is called only when the keys are set, and then at least once.
AgentQueryRun(user_prompt, script, raised, printed, model_calls, posts, messages) ==
    [kind |-> "run_agent_query", input |-> user_prompt, script |-> script,
     before |-> <<>>, have_keys |-> model_calls > 0, raised |-> raised, returned |-> None, printed |-> printed,
     model_calls |-> model_calls, results |-> posts, messages |-> messages,
     history |-> <<>>]

\* run_agent_query(user_prompt): a first model call, at most one tool call sent
\* to the tool server, and then a second model call whose text is printed. A
\* model call that fails with a RequestException is caught: the error is
\* printed and the run returns; any other exception of a model call escapes. The
\* arguments are parsed with json.loads outside any try; what they hold is left
\* to the tool server.
\* have_keys: CEREBRAS_API_KEY and TOOL_API_KEY are set; server_ok: the POST to
\* the tool server succeeds.
run_agent_query(user_prompt, script, have_keys, server_ok) ==
    LET messages == << Msg("system", Str("SYSTEM_PROMPT"), <<>>, ""),
                       Msg("user", Str(user_prompt), <<>>, "") >>
        first == response_at(script, 1)
        response_message == Msg("assistant", Str(first.content), first.tool_calls, "")
        with_first == Append(messages, response_message)
    IN  IF ~have_keys
        THEN AgentQueryRun(user_prompt, script, "none", None, 0, <<>>, <<>>)
        ELSE IF first.kind = "raise"
        THEN AgentQueryRun(user_prompt, script, "APIConnectionError", None, 1, <<>>,
                           messages)
        ELSE IF first.kind = "raise_request"
        THEN AgentQueryRun(user_prompt, script, "none",
                           Str("Error calling Cerebras API"), 1, <<>>, messages)
        ELSE IF first.tool_calls = <<>>
        THEN AgentQueryRun(user_prompt, script, "none", Str(first.content), 1, <<>>,
                           with_first)
        ELSE
        LET tool_call == first.tool_calls[1]
            tool_result == IF server_ok THEN Str("tool_response.json()")
                           ELSE Str("{\"error\": str(e)}")
            with_tool == Append(with_first, ToolMessage(tool_result, tool_call.id))
            second == response_at(script, 2)
        IN  IF tool_call.name # TOOL_NAME
            THEN AgentQueryRun(user_prompt, script, "none", None, 1, <<>>, with_first)
            ELSE IF tool_call.payload = "unparseable"
            THEN AgentQueryRun(user_prompt, script, "JSONDecodeError", None, 1, <<>>,
                               with_first)
            ELSE IF second.kind = "raise"
            THEN AgentQueryRun(user_prompt, script, "APIConnectionError", None, 2,
                               <<tool_call>>, with_tool)
            ELSE IF second.kind = "raise_request"
            THEN AgentQueryRun(user_prompt, script, "none",
                               Str("Error on second call to Cerebras API"), 2,
                               <<tool_call>>, with_tool)
            ELSE AgentQueryRun(user_prompt, script, "none", Str(second.content), 2,
                               <<tool_call>>, with_tool)

----------------------------------------------------------------------------
(* The agents on their own: turns of the stateful agent, resets, and runs of  *)
(* the one-shot agent, each against a scripted model.                         *)

Answer == Text("Final Answer: the pods are healthy.")
ListPods(tool) == ToolCall("call_1", tool, s_pod, "kube-system", None, NoBody)
ReadWidget(tool) == ToolCall("call_2", tool, s_Widget, "default", Str("web"), NoBody)
BrokenList(tool) ==
    ToolCall("call_3", tool, s_pod, "default", None,
             [kind |-> "ApiException", obj |-> "", body |-> None])

\* The scripted models: a direct answer, the round trip, a round trip of two
\* calls at once, a model that never stops calling the tool, failing model
\* calls, tool calls the dispatcher rejects or fails on, and tool calls whose
\* argument payload is malformed.
Scripts(tool) ==
    { <<Answer>>,
      <<Calls(<<ListPods(tool)>>), Answer>>,
      <<Calls(<<ReadWidget(tool)>>), Answer>>,
      <<Calls(<<ListPods(tool), ReadWidget(tool)>>), Answer>>,
      <<Calls(<<ListPods(tool)>>)>>,
      <<Calls(<<BrokenList(tool)>>), Answer>>,
      <<Fails>>,
      <<Calls(<<ListPods(tool)>>), Fails>>,
      <<Calls(<<MalformedToolCall("call_4", tool, "unparseable")>>), Answer>>,
      <<Calls(<<MalformedToolCall("call_5", tool, "invalid")>>), Answer>> }

\* The scripted models of the stateful agent, whose tool is get_kubernetes_resource.
ChatScripts == Scripts("get_kubernetes_resource")

\* The scripted models of the one-shot agent, whose tool is TOOL_NAME: the same
\* scripts, a round trip that asks for a tool of another name, and model calls
\* that fail with a RequestException.
QueryScripts ==
    Scripts(TOOL_NAME)
    \cup { <<Calls(<<ListPods("get_pods")>>), Answer>>,
           <<FailsRequest>>,
           <<Calls(<<ListPods(TOOL_NAME)>>), FailsRequest>> }

\* The scripted models behind the HTTP endpoints: one that answers at once, one
\* that answers after a tool round trip, one whose first request fails and one
\* whose request after a tool round trip fails.
WebScripts ==
    { <<Answer>>,
      <<Calls(<<ListPods("get_kubernetes_resource")>>), Answer>>,
      <<Fails>>,
      <<Calls(<<ListPods("get_kubernetes_resource")>>), Fails>> }

\* The scripted models behind the record of the clearing requests, where a
\* turn matters only by whether it ran: one that answers and one that fails.
UploadScripts == { <<Answer>>, <<Fails>> }

Questions == { "Are the pods healthy?", "What about the service?" }
\* The questions asked over HTTP.
WebQuestions == { "Are the pods healthy?" }

\* The resources.csv of the deployment.
ProductionTable ==
    [readable |-> TRUE,
     rows |-> << Row(s_pod, "v1", s_pod), Row(s_deployment, "apps_v1", s_deployment) >>]

InitAgent ==
    /\ files \in { EmptyFs, [p \in {KUBE_CONFIG_FILE} |-> Kubeconfig] }
    /\ csv = ProductionTable
    /\ k8s = [pc |-> "none"]
    /\ chat_history = <<>>
    /\ session_data = [s \in {} |-> 0]
    /\ http = IdleHttp
    /\ pending = NoPending
    /\ turn = IdleTurn
    /\ hist = <<>>

Chat(user_question, script) ==
    /\ Len(chat_history) < 2 * MaxTurns
    /\ \E c \in { chat(chat_history, user_question, script, files, csv) } :
          /\ turn' = c
          /\ chat_history' = c.history
    /\ UNCHANGED <<files, csv, k8s, session_data, http, pending, hist>>

StartNewSession ==
    /\ chat_history' = start_new_session(chat_history)
    /\ turn' = [kind |-> "start_new_session", before |-> chat_history]
    /\ UNCHANGED <<files, csv, k8s, session_data, http, pending, hist>>

RunAgentQuery(user_prompt, script, have_keys, server_ok) ==
    /\ turn' = run_agent_query(user_prompt, script, have_keys, server_ok)
    /\ UNCHANGED <<files, csv, k8s, chat_history, session_data, http, pending, hist>>

NextAgent ==
    \/ \E q \in Questions, script \in ChatScripts : Chat(q, script)
    \/ StartNewSession
    \/ \E q \in Questions, script \in QueryScripts,
          have_keys \in BOOLEAN, server_ok \in BOOLEAN :
          RunAgentQuery(q, script, have_keys, server_ok)

SpecAgent == InitAgent /\ [][NextAgent]_vars

----------------------------------------------------------------------------
(* main.py: the HTTP endpoints, around the one module-level agent sre_agent.  *)
(* The handlers are coroutines on one event loop: a handler runs without      *)
(* interruption up to an await.  The one await is file.seek(0) in             *)
(* upload_file, between opening uploads/config and copying into it, so that   *)
(* handler is two steps and every other handler is one.  Any number of        *)
(* uploads may be between their two steps, MaxPending of them here.           *)

Sessions == { "A", "B" }

Response(req, session_id, status, path) ==
    [req |-> req, session_id |-> session_id, status |-> status, path |-> path]

ServerUp == http.req # "shutdown"

\* File system fs with file path written (created or overwritten).
write_file(fs, path, content) ==
    [p \in DOMAIN fs \cup {path} |-> IF p = path THEN content ELSE fs[p]]

\* A file system that deletes nothing.
remove_file_keeps(fs, path) == fs

\* os.remove
remove_file(fs, path) == [p \in DOMAIN fs \ {path} |-> fs[p]]

\* A session store that forgets nothing.
del_session_keeps(data, session_id) == data

\* if session_id in session_data: del session_data[session_id]
del_session(data, session_id) == [s \in DOMAIN data \ {session_id} |-> data[s]]

\* What is in a file that open(file_path, "wb") has created or emptied and
\* nothing has been copied into yet.
TRUNCATED == <<>>

\* session_data[session_id] = {}
EmptyEntry == [k \in {} |-> ""]

\* buffer.write from the start of a file that holds `existing` and is not
\* emptied again: the blocks written replace as many of the blocks that were
\* there, and what was there beyond them stays.
write_over(existing, written) ==
    written \o SubSeq(existing, Len(written) + 1, Len(existing))

\* shutil.copyfileobj(file.file, buffer) that has copied the first `copied`
\* blocks of content when it ends, all of them when it succeeds; the with
\* block flushes what was copied when it closes the file.
copyfileobj(existing, content, copied) ==
    write_over(existing, SubSeq(content, 1, copied))

\* The open files of the pending uploads no longer name uploads/config once
\* that path has been removed: what is written to them is lost.
unlinked(uploads) ==
    LET off(u) == [u EXCEPT !.linked = FALSE]
        on(u) == [u EXCEPT !.linked = TRUE]
        U == { off(u) : u \in BagToSet(uploads) }
    IN  [u \in U |-> CopiesIn(u, uploads) + CopiesIn(on(u), uploads)]

\* POST /upload, up to `await file.seek(0)`: uploads/config is opened for
\* writing, which creates or empties it; when the open fails the request is
\* answered 500. The await returns to the event loop for an upload that was
\* spooled to disk, so other requests may run before the handler goes on,
\* further uploads of the same session id among them; for an upload held in
\* memory the second step follows at once.
upload_file_open(session_id, filename, content, open_ok) ==
    /\ ServerUp
    /\ BagCardinality(pending) < MaxPending
    /\ LET file_path == path_join(UPLOAD_DIR, CONFIG_FILENAME)
           upload == [session_id |-> session_id, filename |-> filename,
                      content |-> content, linked |-> TRUE]
       IN  IF open_ok
           THEN /\ files' = write_file(files, file_path, TRUNCATED)
                /\ pending' = pending (+) SetToBag({upload})
                /\ http' = Response("upload", session_id, 0, file_path)
           ELSE /\ http' = Response("upload", session_id, 500, file_path)
                /\ UNCHANGED <<files, pending>>
    /\ UNCHANGED <<csv, k8s, chat_history, session_data, turn>>

\* POST /upload, from the return of `await file.seek(0)` on, for the pending
\* upload `upload`: the content is copied into the opened file, the session
\* gets an entry, and the entry is filled with the file's details, its size by
\* os.path.getsize(file_path) among them. A copy that fails after `copied`
\* blocks leaves them in the file and is answered 500 before the session store
\* is touched; a file that is no longer at uploads/config makes getsize raise,
\* which is answered 500 after a session without entry has got the empty one.
upload_file_copy(upload, copied) ==
    /\ ServerUp
    /\ BagIn(upload, pending)
    /\ pending' = pending (-) SetToBag({upload})
    /\ LET file_path == path_join(UPLOAD_DIR, CONFIG_FILENAME)
           session_id == upload.session_id
       IN  /\ IF upload.linked
              THEN files' = write_file(files, file_path,
                               copyfileobj(files[file_path], upload.content, copied))
              ELSE UNCHANGED files
           /\ IF copied < Len(upload.content)
              THEN /\ http' = Response("upload", session_id, 500, file_path)
                   /\ UNCHANGED session_data
              ELSE IF file_path \in DOMAIN files
              THEN /\ session_data' =
                         [s \in DOMAIN session_data \cup {session_id} |->
                             IF s = session_id
                             THEN [filename |-> upload.filename,
                                   filepath |-> file_path]
                             ELSE session_data[s]]
                   /\ http' = Response("upload", session_id, 200, file_path)
              ELSE /\ session_data' =
                         [s \in DOMAIN session_data \cup {session_id} |->
                             IF s \in DOMAIN session_data THEN session_data[s]
                             ELSE EmptyEntry]
                   /\ http' = Response("upload", session_id, 500, file_path)
    /\ UNCHANGED <<csv, k8s, chat_history, turn>>

\* POST /query: 400 when uploads/config does not exist; else one chat turn of
\* the global agent, 500 when it raises.
process_query(session_id, query, script) ==
    /\ ServerUp
    /\ LET config_file_path == path_join(UPLOAD_DIR, CONFIG_FILENAME)
       IN  IF config_file_path \notin DOMAIN files
           THEN /\ http' = Response("query", session_id, 400, config_file_path)
                /\ UNCHANGED <<chat_history, turn>>
           ELSE /\ Len(chat_history) < 2 * MaxTurns
                /\ \E c \in { chat(chat_history, query, script, files, csv) } :
                      /\ turn' = c
                      /\ chat_history' = c.history
                      /\ http' = Response("query", session_id,
                                          IF c.raised = "none" THEN 200 ELSE 500,
                                          config_file_path)
    /\ UNCHANGED <<files, csv, k8s, session_data, pending>>

\* POST /clear: the agent is reset, uploads/config is deleted, the session's
\* entry is dropped. remove_ok: os.remove succeeds.
clear_history(session_id, remove_ok) ==
    /\ ServerUp
    /\ LET config_file_path == path_join(UPLOAD_DIR, CONFIG_FILENAME)
       IN  /\ chat_history' = start_new_session(chat_history)
           /\ turn' = [kind |-> "start_new_session", before |-> chat_history]
           /\ IF config_file_path \in DOMAIN files /\ ~remove_ok
              THEN /\ http' = Response("clear", session_id, 500, config_file_path)
                   /\ UNCHANGED <<files, session_data, pending>>
              ELSE /\ files' = remove_file(files, config_file_path)
                   /\ pending' = IF config_file_path \in DOMAIN files
                                 THEN unlinked(pending) ELSE pending
                   /\ session_data' = del_session(session_data, session_id)
                   /\ http' = Response("clear", session_id, 200, config_file_path)
    /\ UNCHANGED <<csv, k8s>>

\* POST /cleanup-all: the agent is reset, uploads/config is deleted, every
\* session's entry is dropped.
cleanup_all_sessions(remove_ok) ==
    /\ ServerUp
    /\ LET config_file_path == path_join(UPLOAD_DIR, CONFIG_FILENAME)
       IN  /\ chat_history' = start_new_session(chat_history)
           /\ turn' = [kind |-> "start_new_session", before |-> chat_history]
           /\ IF config_file_path \in DOMAIN files /\ ~remove_ok
              THEN /\ http' = Response("cleanup-all", "", 500, config_file_path)
                   /\ UNCHANGED <<files, session_data, pending>>
              ELSE /\ files' = remove_file(files, config_file_path)
                   /\ pending' = IF config_file_path \in DOMAIN files
                                 THEN unlinked(pending) ELSE pending
                   /\ session_data' = [s \in {} |-> 0]
                   /\ http' = Response("cleanup-all", "", 200, config_file_path)
    /\ UNCHANGED <<csv, k8s>>

\* The shutdown hook: uploads/config is deleted if it is there (a failure to
\* delete it is only printed), and the server takes no further request. The
\* hook runs once the requests in flight have been answered.
cleanup_on_shutdown(remove_ok) ==
    /\ ServerUp
    /\ pending = NoPending
    /\ files' = IF CONFIG_FILE_PATH \in DOMAIN files /\ remove_ok
                THEN remove_file(files, CONFIG_FILE_PATH)
                ELSE files
    /\ http' = Response("shutdown", "", 0, CONFIG_FILE_PATH)
    /\ UNCHANGED <<csv, k8s, chat_history, session_data, pending, turn>>

Init ==
    /\ files \in WebFileSystems
    /\ csv = ProductionTable
    /\ k8s = [pc |-> "none"]
    /\ chat_history = <<>>
    /\ session_data = [s \in {} |-> 0]
    /\ http = IdleHttp
    /\ pending = NoPending
    /\ turn = IdleTurn
    /\ hist = <<>>

Next ==
    \/ \E s \in Sessions, content \in Contents, open_ok \in BOOLEAN :
          upload_file_open(s, "kubeconfig.yaml", content, open_ok) /\ UNCHANGED hist
    \/ \E upload \in BagToSet(pending) : \E copied \in 0..Len(upload.content) :
          upload_file_copy(upload, copied) /\ UNCHANGED hist
    \/ \E s \in Sessions, q \in WebQuestions, script \in WebScripts :
          process_query(s, q, script) /\ UNCHANGED hist
    \/ \E s \in Sessions, remove_ok \in BOOLEAN :
          clear_history(s, remove_ok) /\ UNCHANGED hist
    \/ \E remove_ok \in BOOLEAN : cleanup_all_sessions(remove_ok) /\ UNCHANGED hist
    \/ \E remove_ok \in BOOLEAN : cleanup_on_shutdown(remove_ok) /\ UNCHANGED hist

Spec == Init /\ [][Next]_vars

----------------------------------------------------------------------------
(* The endpoints with a record of each session's own requests.  hist[s] is   *)
(* the history that the /query and /clear requests made with session id s    *)
(* would have built on their own; hist.seen is what the last answered /query *)
(* had as hist[s] when it was taken.                                         *)

InitSessions ==
    /\ files = EmptyFs
    /\ csv = ProductionTable
    /\ k8s = [pc |-> "none"]
    /\ chat_history = <<>>
    /\ session_data = [s \in {} |-> 0]
    /\ http = IdleHttp
    /\ pending = NoPending
    /\ turn = IdleTurn
    /\ hist = [own |-> [s \in Sessions |-> <<>>], seen |-> <<>>]

QueryOf(s, q, script) ==
    /\ Len(hist.own[s]) < 2 * MaxTurns
    /\ process_query(s, q, script)
    /\ hist' = IF http'.status = 200
               THEN [own |-> [hist.own EXCEPT ![s] =
                                 chat_history_after(@, q, turn'.returned.v)],
                     seen |-> hist.own[s]]
               ELSE [hist EXCEPT !.seen = hist.own[s]]

ClearOf(s, remove_ok) ==
    /\ clear_history(s, remove_ok)
    /\ hist' = [hist EXCEPT !.own[s] = <<>>]

\* /cleanup-all is no session's own request: it resets every session.
CleanupAllOf(remove_ok) ==
    /\ cleanup_all_sessions(remove_ok)
    /\ hist' = [own |-> [s \in Sessions |-> <<>>], seen |-> hist.seen]

UploadOf(s, content, open_ok) ==
    /\ upload_file_open(s, "kubeconfig.yaml", content, open_ok)
    /\ UNCHANGED hist

UploadCopyOf(upload, copied) ==
    /\ upload_file_copy(upload, copied)
    /\ UNCHANGED hist

ShutdownOf(remove_ok) ==
    /\ cleanup_on_shutdown(remove_ok)
    /\ UNCHANGED hist

NextSessions ==
    \/ \E s \in Sessions, content \in Contents, open_ok \in BOOLEAN :
          UploadOf(s, content, open_ok)
    \/ \E upload \in BagToSet(pending) : \E copied \in 0..Len(upload.content) :
          UploadCopyOf(upload, copied)
    \/ \E s \in Sessions, q \in WebQuestions, script \in WebScripts :
          QueryOf(s, q, script)
    \/ \E s \in Sessions, remove_ok \in BOOLEAN : ClearOf(s, remove_ok)
    \/ \E remove_ok \in BOOLEAN : CleanupAllOf(remove_ok)
    \/ \E remove_ok \in BOOLEAN : ShutdownOf(remove_ok)

SpecSessions == InitSessions /\ [][NextSessions]_vars

----------------------------------------------------------------------------
(* The endpoints with a record of the clearing requests.  hist.after_clear   *)
(* holds from any /clear or /cleanup-all, whatever it answered, to the next  *)
(* /upload answered with success; hist.after_clear_ok holds from a /clear or *)
(* /cleanup-all answered with success to the next /upload that opens the     *)
(* file for writing.                                                         *)

InitUploads ==
    /\ files \in WebFileSystems
    /\ csv = ProductionTable
    /\ k8s = [pc |-> "none"]
    /\ chat_history = <<>>
    /\ session_data = [s \in {} |-> 0]
    /\ http = IdleHttp
    /\ pending = NoPending
    /\ turn = IdleTurn
    /\ hist = [after_clear |-> FALSE, after_clear_ok |-> FALSE]

UploadIn(s, content, open_ok) ==
    /\ upload_file_open(s, "kubeconfig.yaml", content, open_ok)
    /\ hist' = [after_clear |-> hist.after_clear,
                after_clear_ok |-> hist.after_clear_ok /\ ~open_ok]

UploadCopyIn(upload, copied) ==
    /\ upload_file_copy(upload, copied)
    /\ hist' = [after_clear |-> hist.after_clear /\ http'.status # 200,
                after_clear_ok |-> hist.after_clear_ok]

QueryIn(s, q, script) ==
    /\ process_query(s, q, script)
    /\ UNCHANGED hist

ClearIn(s, remove_ok) ==
    /\ clear_history(s, remove_ok)
    /\ hist' = [after_clear |-> TRUE,
                after_clear_ok |-> hist.after_clear_ok \/ http'.status = 200]

CleanupAllIn(remove_ok) ==
    /\ cleanup_all_sessions(remove_ok)
    /\ hist' = [after_clear |-> TRUE,
                after_clear_ok |-> hist.after_clear_ok \/ http'.status = 200]

ShutdownIn(remove_ok) ==
    /\ cleanup_on_shutdown(remove_ok)
    /\ UNCHANGED hist

NextUploads ==
    \/ \E s \in Sessions, content \in Contents, open_ok \in BOOLEAN :
          UploadIn(s, content, open_ok)
    \/ \E upload \in BagToSet(pending) : \E copied \in 0..Len(upload.content) :
          UploadCopyIn(upload, copied)
    \/ \E s \in Sessions, q \in WebQuestions, script \in UploadScripts :
          QueryIn(s, q, script)
    \/ \E s \in Sessions, remove_ok \in BOOLEAN : ClearIn(s, remove_ok)
    \/ \E remove_ok \in BOOLEAN : CleanupAllIn(remove_ok)
    \/ \E remove_ok \in BOOLEAN : ShutdownIn(remove_ok)

SpecUploads == InitUploads /\ [][NextUploads]_vars

----------------------------------------------------------------------------
(* Claims about the dispatcher, checked under SpecDispatch *)

Returned_k8s == k8s.pc = "returned"
ConfigLoads == KUBE_CONFIG_FILE \in DOMAIN files /\ files[KUBE_CONFIG_FILE] = Kubeconfig
LoadedMap == get_api_map_from_csv(csv.rows)
Supported(rt) == csv.readable /\ lower(rt) \in DOMAIN LoadedMap
NotSupported(rt) == csv.readable /\ lower(rt) \notin DOMAIN LoadedMap
NamePresent(n) == n # None /\ n # Str("")
IsReadOrList(m) == startswith(m, s_read) \/ startswith(m, s_list)

\* C1: execute_k8s_query raises no exception, whatever the remote API, the
\* kube-config loader and the mapping loader do: it always returns an envelope
\* whose status is 'success' or 'error'.
C1_NoExceptionEscapes ==
    Returned_k8s =>
        /\ k8s.result.raised = "none"
        /\ k8s.result.status \in {"success", "error"}

\* C2 as stated: for every resource type whose lower-cased form is not a key of
\* the mapping, the envelope is the error 'Unsupported resource type' naming the
\* string as given, and no remote operation is invoked.
C2_Original ==
    (Returned_k8s /\ NotSupported(k8s.resource_type)) =>
        /\ k8s.result.status = "error"
        /\ k8s.result.data.kind = "Unsupported resource type: '"
        /\ k8s.result.data.arg = k8s.resource_type
        /\ k8s.result.calls = <<>>

\* C2 amended: for every resource type whose lower-cased form is not a key of
\* the mapping, no remote operation is invoked and the envelope is an error;
\* it is 'Unsupported resource type' naming the string as given when the
\* kube-config at tmp/uploads/config loads, and 'An unexpected error occurred'
\* when it does not (the configuration is loaded before the lookup).
C2_Unsupported ==
    (Returned_k8s /\ NotSupported(k8s.resource_type)) =>
        /\ k8s.result.raised = "none"
        /\ k8s.result.status = "error"
        /\ k8s.result.calls = <<>>
        /\ ConfigLoads =>
              /\ k8s.result.data.kind = "Unsupported resource type: '"
              /\ k8s.result.data.arg = k8s.resource_type
        /\ ~ConfigLoads =>
              k8s.result.data.kind = "An unexpected error occurred: "

C2_Witness ==
    /\ Returned_k8s
    /\ k8s.resource_type = s_Widget
    /\ LoadedMap # <<>>
    /\ k8s.result.data.kind = "Unsupported resource type: '"
    /\ k8s.result.data.arg = s_Widget

\* The remote operation the claim C3 expects for the call in k8s.
ExpectedCall ==
    LET entry == LoadedMap[lower(k8s.resource_type)]
    IN  [api_client |-> entry[1],
         method |-> (IF NamePresent(k8s.name) THEN s_read ELSE s_list)
                        \o s_namespaced \o entry[2],
         kwargs |-> IF NamePresent(k8s.name)
                    THEN [namespace |-> k8s.namespace, name |-> k8s.name.v]
                    ELSE [namespace |-> k8s.namespace]]

\* C3 as stated: for every supported resource type exactly one remote operation
\* is invoked, list_namespaced_<suffix> with the namespace alone when name is
\* absent and read_namespaced_<suffix> with namespace and name when present.
C3_Original ==
    (Returned_k8s /\ Supported(k8s.resource_type)) =>
        k8s.result.calls = << ExpectedCall >>

\* C3 amended: for every supported resource type at most one remote operation
\* is invoked; exactly one, the list or read operation selected by the presence
\* of name alone, when the kube-config loads and the composed name is a method
\* of the mapped client, and none otherwise.
C3_OperationSelection ==
    (Returned_k8s /\ Supported(k8s.resource_type)) =>
        IF ConfigLoads /\ ExpectedCall.method \in api_methods(ExpectedCall.api_client)
        THEN k8s.result.calls = << ExpectedCall >>
        ELSE k8s.result.calls = <<>>

C3_Witness ==
    /\ Returned_k8s
    /\ k8s.resource_type = s_Deployment
    /\ k8s.name = Str("web")
    /\ k8s.namespace = "kube-system"
    /\ Len(k8s.result.calls) = 1
    /\ k8s.result.calls[1].api_client = "AppsV1Api"
    /\ k8s.result.calls[1].method = s_read \o s_namespaced \o s_deployment
    /\ k8s.result.status = "success"

\* What a resource type resolves to: nothing, or the composed method name and
\* the remote calls made for it.
Resolution(rt) ==
    LET r == execute_k8s_query(rt, k8s.namespace, k8s.name, files, csv, k8s.remote)
    IN  <<r.data.kind = "Unsupported resource type: '", r.method_name, r.calls>>

\* C4: resource types that differ only in letter case resolve to the same
\* mapping entry or are both unsupported, and the keys of the loaded map are
\* lower-case, for every table the loader can read.
C4_CaseInsensitiveLowerKeys ==
    (Returned_k8s /\ csv.readable) =>
        /\ \A rt \in ResourceTypes :
              lower(rt) = lower(k8s.resource_type) =>
                  Resolution(rt) = Resolution(k8s.resource_type)
        /\ \A key \in DOMAIN LoadedMap : key = lower(key)

\* C5: every remote operation the dispatcher composes or invokes is named by
\* the verb read or list, whatever the inputs and the mapping table.
C5_ReadOnly ==
    Returned_k8s =>
        /\ k8s.result.method_name # <<>> => IsReadOrList(k8s.result.method_name)
        /\ \A i \in 1..Len(k8s.result.calls) : IsReadOrList(k8s.result.calls[i].method)

C5_Witness ==
    /\ Returned_k8s
    /\ k8s.name = Str("web")
    /\ Len(k8s.result.calls) = 1
    /\ s_delete \o s_namespaced \o s_pod \in api_methods(k8s.result.calls[1].api_client)
    /\ k8s.result.calls[1].method = s_read \o s_namespaced \o s_pod

----------------------------------------------------------------------------
(* Claims about the agent loops, checked under SpecAgent *)

Roles(messages) == [i \in 1..Len(messages) |-> messages[i].role]

\* The scripted model of the round trip: one tool-call request, of valid
\* arguments, then plain text.
RoundTrip(script) ==
    /\ Len(script) = 2
    /\ script[1].kind = "tool_calls"
    /\ Len(script[1].tool_calls) = 1
    /\ script[1].tool_calls[1].payload = "valid"
    /\ script[2].kind = "text"

\* The scripted model that requests a tool call in every response.
AlwaysTool(script) == \A i \in 1..Len(script) : script[i].kind = "tool_calls"

\* The session history a run leaves: the agent's chat history for chat, the
\* message list for run_agent_query.
SessionHistory == IF turn.kind = "chat" THEN chat_history ELSE turn.messages

RoundTripRan ==
    /\ turn.kind \in {"chat", "run_agent_query"}
    /\ turn.before = <<>>
    /\ RoundTrip(turn.script)
    /\ turn.raised = "none"
    /\ turn.model_calls = 2

\* C6 as stated: on the round-trip script one turn makes exactly two model
\* calls and one dispatch, returns the second call's text, and leaves the
\* session history with exactly five messages: system, user,
\* assistant(tool-call), tool(result), assistant(final).
C6_Original ==
    RoundTripRan =>
        /\ Len(turn.results) = 1
        /\ turn.returned = Str(turn.script[2].content)
        /\ Roles(SessionHistory) = <<"system", "user", "assistant", "tool", "assistant">>

\* C7: against a model that requests a tool call in every response, a chat turn
\* ends after max_iterations iterations: it makes exactly max_iterations model
\* calls, none after the budget is spent, and hands the caller a response, which
\* is also recorded in the history. No chat turn makes more than max_iterations
\* model calls, and run_agent_query never makes more than two.
C7_IterationBudget ==
    /\ turn.kind = "chat" => turn.model_calls <= max_iterations
    /\ (turn.kind = "chat" /\ AlwaysTool(turn.script) /\ turn.raised = "none") =>
          /\ turn.model_calls = max_iterations
          /\ Len(turn.results) >= max_iterations
          /\ turn.returned = Str(STOPPED)
          /\ chat_history = turn.before \o << HumanMessage(turn.input), AIMessage(STOPPED) >>
    /\ turn.kind = "run_agent_query" => turn.model_calls <= 2

C7_Witness ==
    /\ turn.kind = "chat"
    /\ AlwaysTool(turn.script)
    /\ turn.raised = "none"
    /\ turn.model_calls = max_iterations
    /\ Len(turn.results) = max_iterations
    /\ turn.returned = Str(STOPPED)

\* C8: after start_new_session the history is empty, whatever turns came
\* before, and resetting again leaves it as it is.
C8_SessionReset ==
    turn.kind = "start_new_session" =>
        /\ chat_history = <<>>
        /\ start_new_session(chat_history) = chat_history
        /\ start_new_session(start_new_session(turn.before)) = start_new_session(turn.before)

C8_Witness ==
    /\ turn.kind = "start_new_session"
    /\ Len(turn.before) = 4
    /\ chat_history = <<>>

C8_WitnessEmpty ==
    /\ turn.kind = "start_new_session"
    /\ turn.before = <<>>
    /\ chat_history = <<>>

----------------------------------------------------------------------------
(* Claims about sessions and paths, checked under SpecSessions and Spec *)

\* C9: sessions are independent: the history a /query of one session is
\* answered from is the history that session's own /query and /clear requests
\* have built, whatever requests other sessions made.
C9_SessionsIndependent ==
    (http.req = "query" /\ http.status # 400) => turn.before = hist.seen

\* C10: the credentials artifact of a successful /upload is stored at the path
\* the dispatcher loads its cluster configuration from: while a session's
\* upload is recorded, every dispatch of a /query reads the path the upload
\* wrote, which is the path /query checks for existence.
C10_SamePath ==
    \A s \in DOMAIN session_data :
        (http.req = "query" /\ http.status # 400
            /\ "filepath" \in DOMAIN session_data[s]) =>
            /\ http.path = session_data[s].filepath
            /\ \A i \in 1..Len(turn.results) :
                  turn.results[i].config_file = session_data[s].filepath

----------------------------------------------------------------------------
(* Failed turns, checked under Spec *)

\* The scripted model fails on one of its calls, every response before that one
\* being a request for tool calls, so that the failing call is made.
ModelFails(script) ==
    \E i \in 1..Len(script) :
        /\ script[i] = Fails
        /\ \A j \in 1..(i - 1) : script[j].kind = "tool_calls"

\* C11: when a model call raises during the turn of a /query, the turn ends as
\* a failed turn: chat raises, /query answers 500, and the session history is
\* message for message what it was before the turn, so the next turn starts
\* from it.
C11_FailedTurnKeepsHistory ==
    (http.req = "query" /\ http.status # 400 /\ ModelFails(turn.script)) =>
        /\ turn.raised = "APIConnectionError"
        /\ http.status = 500
        /\ chat_history = turn.before

C11_Witness ==
    /\ http.req = "query"
    /\ http.status = 500
    /\ ModelFails(turn.script)
    /\ turn.model_calls = 2
    /\ Len(turn.before) = 2
    /\ chat_history = turn.before

----------------------------------------------------------------------------
(* Claims about tool calls and their messages, checked under SpecAgent *)

\* The turns that keep a conversation: chat and run_agent_query.
Conversation == turn.kind \in {"chat", "run_agent_query"}

RequestsTools(m) == m.role = "assistant" /\ m.tool_calls # <<>>

\* The number of assistant messages with tool-call requests among the first i.
RequestsUpTo(messages, i) ==
    Cardinality({ j \in 1..i : RequestsTools(messages[j]) })

\* The assistant message at i is followed by one tool message per requested
\* call, in the order of the requests and tagged with their identifiers, and by
\* no further tool message.
Answered(messages, i) ==
    LET k == Len(messages[i].tool_calls)
    IN  /\ i + k <= Len(messages)
        /\ \A n \in 1..k :
              /\ messages[i + n].role = "tool"
              /\ messages[i + n].tool_call_id = messages[i].tool_calls[n].id
        /\ i + k + 1 <= Len(messages) => messages[i + k + 1].role # "tool"

\* The tool message at j answers a call of the assistant message before it.
Requested(messages, j) ==
    \E i \in 1..(j - 1) :
        /\ RequestsTools(messages[i])
        /\ j - i <= Len(messages[i].tool_calls)
        /\ messages[j].tool_call_id = messages[i].tool_calls[j - i].id
        /\ \A n \in (i + 1)..(j - 1) : messages[n].role = "tool"

\* C12: in the conversation of a turn, every assistant message with k >= 1
\* tool-call requests after which the model was called again is followed by
\* exactly k tool messages, one per request and tagged with its identifier, and
\* every tool message answers a request of the assistant message before it.
C12_ToolMessagesMatchCalls ==
    Conversation =>
        /\ \A i \in 1..Len(turn.messages) :
              (/\ RequestsTools(turn.messages[i])
               /\ turn.model_calls > RequestsUpTo(turn.messages, i))
                  => Answered(turn.messages, i)
        /\ \A j \in 1..Len(turn.messages) :
              turn.messages[j].role = "tool" => Requested(turn.messages, j)

\* The first response of the scripted model requests a tool call whose
\* argument payload is malformed.
MalformedFirst(script) ==
    /\ script[1].kind = "tool_calls"
    /\ script[1].tool_calls[1].payload # "valid"

\* C13: when the model emits a tool call with a malformed argument payload,
\* the turn is not aborted: no exception leaves it, a tool message tagged with
\* that call's identifier reports the failure, and the model is called again.
C13_MalformedArgsReported ==
    (/\ Conversation
     /\ MalformedFirst(turn.script)
     /\ turn.kind = "run_agent_query" =>
           (turn.have_keys /\ turn.script[1].tool_calls[1].name = TOOL_NAME)) =>
        /\ turn.raised = "none"
        /\ turn.model_calls >= 2
        /\ \E j \in 1..Len(turn.messages) :
              /\ turn.messages[j].role = "tool"
              /\ turn.messages[j].tool_call_id = turn.script[1].tool_calls[1].id

----------------------------------------------------------------------------
(* The clear endpoint, checked under Spec *)

\* C14: after a /clear of session S that answers with its success message the
\* agent's history is empty, no file exists at uploads/config, and the session
\* store has no entry for S, whatever the state the request was made in.
C14_ClearPostcondition ==
    (http.req = "clear" /\ http.status = 200) =>
        /\ chat_history = <<>>
        /\ CONFIG_FILE_PATH \notin DOMAIN files
        /\ http.session_id \notin DOMAIN session_data

\* A /clear of one session after an answered /query, while the other session's
\* upload is still recorded.
C14_Witness ==
    /\ http.req = "clear"
    /\ http.status = 200
    /\ Len(turn.before) = 2
    /\ chat_history = <<>>
    /\ CONFIG_FILE_PATH \notin DOMAIN files
    /\ DOMAIN session_data = Sessions \ {http.session_id}

\* A /clear of a session never seen, with nothing uploaded and nothing asked.
C14_WitnessFresh ==
    /\ http.req = "clear"
    /\ http.status = 200
    /\ turn.before = <<>>
    /\ session_data = [s \in {} |-> 0]
    /\ files = EmptyFs

----------------------------------------------------------------------------
(* The internal dispatch error, checked under SpecDispatch *)

\* The operation name composed for the request in k8s, and the API surface
\* the mapping selects for it.
ComposedMethod ==
    action_of(k8s.name) \o s_namespaced \o LoadedMap[lower(k8s.resource_type)][2]
SelectedSurface == LoadedMap[lower(k8s.resource_type)][1]

\* The composed operation name does not exist on the selected API surface.
MethodMissing ==
    /\ ConfigLoads
    /\ Supported(k8s.resource_type)
    /\ ComposedMethod \notin api_methods(SelectedSurface)

InternalToolError ==
    /\ k8s.result.raised = "none"
    /\ k8s.result.status = "error"
    /\ k8s.result.data.kind = "Internal Tool Error: Could not find method '"

\* C15: execute_k8s_query returns the 'Internal Tool Error' envelope exactly
\* when the composed operation name does not exist on the selected API
\* surface: then it names the composed method and no remote call was made, and
\* no failure inside the remote operation or in serializing its result is
\* reported under that envelope.
C15_InternalToolErrorExactly ==
    Returned_k8s =>
        /\ InternalToolError <=> MethodMissing
        /\ InternalToolError =>
              /\ k8s.result.data.arg = ComposedMethod
              /\ k8s.result.calls = <<>>

----------------------------------------------------------------------------
(* The history under chat, checked under SpecAgent *)

IsPrefix(a, b) == Len(a) <= Len(b) /\ SubSeq(b, 1, Len(a)) = a

\* C16: the session history is append-only under chat: in every step that is a
\* chat turn the history before it is a prefix of the history after it; a chat
\* that returns extends the history by exactly the user message of its question
\* followed by one assistant message whose content is the string it returns,
\* and a chat that raises leaves it as it was.
C16_AppendOnly ==
    [][ turn'.kind = "chat" =>
           /\ IsPrefix(chat_history, chat_history')
           /\ turn'.raised = "none" =>
                 chat_history' = chat_history \o << HumanMessage(turn'.input),
                                                    AIMessage(turn'.returned.v) >>
           /\ turn'.raised # "none" => chat_history' = chat_history ]_vars

\* A second chat in a row that returned, on top of the first one's two messages.
C16_Witness ==
    /\ turn.kind = "chat"
    /\ turn.raised = "none"
    /\ Len(turn.before) = 2
    /\ IsPrefix(turn.before, chat_history)
    /\ chat_history = turn.before \o << HumanMessage(turn.input),
                                        AIMessage(turn.returned.v) >>
    /\ turn.before[1] # chat_history[3]

----------------------------------------------------------------------------
(* Claims about the uploads, checked under SpecUploads *)

\* The step is a /query answered with 400 that ran no turn of the agent and
\* changed neither its history nor the session store.
Rejected ==
    /\ http'.status = 400
    /\ turn' = turn
    /\ chat_history' = chat_history
    /\ session_data' = session_data

\* C17 as stated: a /query made while no file exists at uploads/config is
\* rejected with 400 without invoking the agent, history and session store
\* unchanged; and from any /clear or /cleanup-all to the next successful
\* /upload every /query is rejected this way.
C17_Original ==
    [][ (http'.req = "query"
            /\ (CONFIG_FILE_PATH \notin DOMAIN files \/ hist.after_clear))
           => Rejected ]_vars

\* C17 amended: a /query made while no file exists at uploads/config is
\* rejected with 400 without invoking the agent, history and session store
\* unchanged; from a /clear or /cleanup-all that answers with success, no file
\* exists at uploads/config and every /query is rejected this way until the
\* next /upload that opens the file for writing, be it one that succeeds or one
\* that fails after the open and leaves the file behind.
C17_RejectedWithoutArtifact ==
    [][ /\ hist.after_clear_ok => CONFIG_FILE_PATH \notin DOMAIN files
        /\ (http'.req = "query"
               /\ (CONFIG_FILE_PATH \notin DOMAIN files \/ hist.after_clear_ok))
              => Rejected ]_vars

\* A /query rejected after a /clear that succeeded on a history of one turn,
\* with another session's upload still on record.
C17_Witness ==
    /\ http.req = "query"
    /\ http.status = 400
    /\ hist.after_clear_ok
    /\ hist.after_clear
    /\ turn.kind = "start_new_session"
    /\ Len(turn.before) = 2
    /\ session_data # [s \in {} |-> 0]
    /\ CONFIG_FILE_PATH \notin DOMAIN files

====
